---- MODULE Spec2Model ----
(***************************************************************************)
(* Model of open_science_catalog_backend/pull_request.py: the pull-request *)
(* backed revision workflow (branch allocation, optimistic file writes,    *)
(* pull-request creation) and the listing of pull requests as change       *)
(* descriptors.  The hosting platform (GitHub, reached through PyGithub)   *)
(* is modelled by its refs, the tree of the main branch and its list of    *)
(* pull requests.                                                          *)
(***************************************************************************)
EXTENDS Integers, Sequences, FiniteSets, TLC

VARIABLES
    mainTree,     \* tree at the tip of the main branch: path -> blob sha ("" = no entry)
    refs,         \* refs/heads/<name> -> tree of the commit the ref points at
    pulls,        \* the platform's pull requests, in enumeration order
    commits,      \* number of commits other actors pushed to main
    pc,           \* per submission: the platform call it is about to make
    args,         \* per submission: the arguments of create_pull_request
    postfix,      \* per submission: _create_branch's postfix
    main_branch,  \* per submission: tree of the tip read by repo.get_branch
    branch_name,  \* per submission: the name _create_branch returned
    sha,          \* per submission: the value of _previous_version_sha
    exc,          \* per submission: the exception that left create_pull_request
    calls,        \* per submission: the platform calls made so far, with results
    page,         \* lister: the pull request objects get_pulls returned
    cursor,       \* lister: index of the next pull request of get_pulls
    yielded,      \* lister: the PullRequestBody values yielded so far
    listExc       \* lister: the exception that left pull_requests()

vars == <<mainTree, refs, pulls, commits, pc, args, postfix, main_branch,
          branch_name, sha, exc, calls, page, cursor, yielded, listExc>>

subVars == <<pc, args, postfix, main_branch, branch_name, sha, exc, calls>>
listVars == <<page, cursor, yielded, listExc>>

(***************************************************************************)
(* Values                                                                  *)
(***************************************************************************)
None == "None"

GITHUB_MAIN_BRANCH == "main"

Procs == {"p1", "p2"}

\* paths are PurePath values: the sequence of their segments
PathFoo == <<"alice", "foo.json">>
PathX == <<"bob", "x.json">>
Paths == {PathFoo, PathX}
\* a second file of the directory alice
PathBar == <<"alice", "bar.json">>
\* a file in a directory that has the name of PathFoo
PathSub == <<"alice", "foo.json", "v1.json">>
\* a file at the top of the repository: its PurePath parent is "."
PathTop == <<"top.json">>
NoPath == <<>>

Contents == {"c1", "c2"}
Shas == {"s1", "s2"}
NoSha == ""

\* git's blob id of file contents (a hash: distinct contents, distinct ids)
BlobSha(content) == IF content = "c1" THEN "s1" ELSE "s2"

Trees == [Paths -> Shas \cup {NoSha}]

\* the retry limit of _create_branch ("if postfix > 15")
MaxPostfix == 15

\* number of commits other actors may push to main during a run
MaxCommits == 1

(***************************************************************************)
(* PurePath                                                                *)
(***************************************************************************)
Parent(path) == SubSeq(path, 1, Len(path) - 1)

Name(path) == path[Len(path)]

(***************************************************************************)
(* Platform: git trees                                                     *)
(***************************************************************************)
IsPrefix(dir, path) ==
    /\ Len(dir) < Len(path)
    /\ SubSeq(path, 1, Len(dir)) = dir

\* variant: the lookup of the parent directory always ends in UnknownObjectException
TreeExists_never(tree, dir) == FALSE

\* git stores no empty directories: a directory exists iff a file lies below it
TreeExists(tree, dir) ==
    \E q \in DOMAIN tree : tree[q] # NoSha /\ IsPrefix(dir, q)

\* a tree of git: no file lies below the path of another file
ValidTree(tree) ==
    \A q \in DOMAIN tree : tree[q] # NoSha => ~ TreeExists(tree, q)

\* git's id of the directory dir, a hash of what lies below it (the
\* sub-directories here hold one file)
TreeSha(tree, dir) ==
    "tree-" \o tree[CHOOSE q \in DOMAIN tree : tree[q] # NoSha /\ IsPrefix(dir, q)]

\* repo.get_git_tree("<main>:<dir>", recursive=False).tree: the entries directly
\* in dir, files and sub-directories alike, as [path |-> entry name, sha |-> id]
get_git_tree(tree, dir) ==
    LET below == {q \in DOMAIN tree : tree[q] # NoSha /\ IsPrefix(dir, q)} IN
    { [path |-> q[Len(dir) + 1],
       type |-> IF Len(q) = Len(dir) + 1 THEN "blob" ELSE "tree",
       sha |-> IF Len(q) = Len(dir) + 1 THEN tree[q]
               ELSE TreeSha(tree, SubSeq(q, 1, Len(dir) + 1))] : q \in below }

\* the answers the platform may give to the tree reference "<main>:<dir>" of a
\* directory that exists: it resolves it (TRUE) or answers 404 (FALSE).  The
\* parent of a top-level path is ".", and "main:." is no path git resolves.
TreeRefResolves(dir) == IF dir = <<>> THEN {TRUE, FALSE} ELSE {TRUE}

\* variant: every submission is taken for a new file
_previous_version_sha_new_file(tree, path) == NoSha

_previous_version_sha(tree, path) ==
    IF ~TreeExists(tree, Parent(path))
    THEN NoSha
    ELSE LET hits == {e \in get_git_tree(tree, Parent(path)) : e.path = Name(path)}
         IN  IF hits = {} THEN NoSha ELSE (CHOOSE e \in hits : TRUE).sha

(***************************************************************************)
(* Branch names                                                            *)
(***************************************************************************)
BranchName(branch_base_name, n) ==
    IF n = 1 THEN branch_base_name ELSE branch_base_name \o "-" \o ToString(n)

(***************************************************************************)
(* Submissions: create_pull_request, one platform call per action          *)
(***************************************************************************)
Call(op, branch, path, token, result) ==
    [op |-> op, branch |-> branch, path |-> path, sha |-> token, result |-> result]

Log(p, call) == calls' = [calls EXCEPT ![p] = Append(@, call)]

\* variant: the exception is swallowed and the pull request still opened
Raise_continue(p, e) ==
    /\ pc' = [pc EXCEPT ![p] = "create_pull"]
    /\ exc' = [exc EXCEPT ![p] = e]

\* an exception leaves create_pull_request: nothing after it runs
Raise(p, e) ==
    /\ pc' = [pc EXCEPT ![p] = "raised"]
    /\ exc' = [exc EXCEPT ![p] = e]

\* the exception _create_branch raises when the name is taken and postfix > 15:
\* a bare `raise` of the GithubException caught
ExhaustedError == "GithubException:422"

\* statement reached after `branch_name = _create_branch(...)`
AfterBranch(a) ==
    IF a.file_to_create # <<>> THEN "sha_create"
    ELSE IF a.file_to_delete # NoPath THEN "sha_delete"
    ELSE "create_pull"

\* variant: the delete is skipped
AfterCreate_skip(a) == "create_pull"

\* statement reached after `if file_to_create: repo.update_file(...)`
AfterCreate(a) ==
    IF a.file_to_delete # NoPath THEN "sha_delete" ELSE "create_pull"

\* variant: set_labels is called whatever labels is
AfterPull_always(a) == "set_labels"

\* statement reached after `pr = repo.create_pull(...)`
AfterPull(a) ==
    IF a.labels # <<>> THEN "set_labels" ELSE "done"

\* repo.get_branch(config.GITHUB_MAIN_BRANCH), first statement of _create_branch
get_branch(p) ==
    /\ pc[p] = "get_branch"
    /\ \/ /\ main_branch' = [main_branch EXCEPT ![p] = mainTree]
          /\ pc' = [pc EXCEPT ![p] = "create_git_ref"]
          /\ Log(p, Call("get_branch", GITHUB_MAIN_BRANCH, NoPath, NoSha, "ok"))
          /\ UNCHANGED exc
       \/ /\ Raise(p, "GithubException:500")
          /\ Log(p, Call("get_branch", GITHUB_MAIN_BRANCH, NoPath, NoSha, "error"))
          /\ UNCHANGED main_branch
    /\ UNCHANGED <<mainTree, refs, pulls, commits, args, postfix, branch_name, sha>>
    /\ UNCHANGED listVars

\* variant: no retry limit
Exhausted_never(n) == FALSE

\* `if postfix > 15:  # safety`
Exhausted(n) == n > MaxPostfix

\* variant: the recursive call skips a name
NextPostfix_skip(n) == n + 2

\* the postfix of the recursive call: `postfix=postfix + 1`
NextPostfix(n) == n + 1

\* `return branch_name` after create_git_ref succeeded
RefCreated(p, name) ==
    /\ branch_name' = [branch_name EXCEPT ![p] = name]
    /\ pc' = [pc EXCEPT ![p] = AfterBranch(args[p])]
    /\ UNCHANGED <<postfix, exc>>

\* variant: a taken name is returned as if it had been created
RefExists_reuse(p, name) ==
    /\ branch_name' = [branch_name EXCEPT ![p] = name]
    /\ pc' = [pc EXCEPT ![p] = AfterBranch(args[p])]
    /\ UNCHANGED <<postfix, exc>>

\* `except github.GithubException as e: if e.status == 422:` (the branch exists)
RefExists(p, name) ==
    /\ IF Exhausted(postfix[p])
       THEN /\ Raise(p, ExhaustedError)
            /\ UNCHANGED postfix
       ELSE /\ postfix' = [postfix EXCEPT ![p] = NextPostfix(@)]
            /\ pc' = [pc EXCEPT ![p] = "get_branch"]
            /\ UNCHANGED exc
    /\ UNCHANGED branch_name

\* variant: every GithubException is taken for "the branch exists"
RefFailed_retry(p, name) == RefExists(p, name)

\* `except github.GithubException as e: ... else: raise` (any other status)
RefFailed(p, name) ==
    /\ Raise(p, "GithubException:500")
    /\ UNCHANGED <<branch_name, postfix>>

\* repo.create_git_ref(ref, sha=main_branch.commit.sha) and the except clause;
\* the platform creates a ref atomically, and refuses a name that is taken
create_git_ref(p) ==
    LET name == BranchName(args[p].branch_base_name, postfix[p]) IN
    /\ pc[p] = "create_git_ref"
    /\ \/ /\ name \notin DOMAIN refs
          /\ refs' = refs @@ (name :> main_branch[p])
          /\ Log(p, Call("create_git_ref", name, NoPath, NoSha, "ok"))
          /\ RefCreated(p, name)
       \/ /\ name \in DOMAIN refs
          /\ Log(p, Call("create_git_ref", name, NoPath, NoSha, "422"))
          /\ RefExists(p, name)
          /\ UNCHANGED refs
       \/ /\ Log(p, Call("create_git_ref", name, NoPath, NoSha, "error"))
          /\ RefFailed(p, name)
          /\ UNCHANGED refs
    /\ UNCHANGED <<mainTree, pulls, commits, args, main_branch, sha>>
    /\ UNCHANGED listVars

\* variant: the token is taken from the tip the branch was created from
LookupSha_tip(p, at, path, next) ==
    /\ pc[p] = at
    /\ \/ \E resolved \in TreeRefResolves(Parent(path)) :
             LET found == resolved /\ TreeExists(main_branch[p], Parent(path)) IN
             /\ sha' = [sha EXCEPT ![p] =
                          IF found THEN _previous_version_sha(main_branch[p], path)
                          ELSE NoSha]
             /\ pc' = [pc EXCEPT ![p] = next]
             /\ Log(p, Call("get_git_tree", GITHUB_MAIN_BRANCH, Parent(path), NoSha,
                            IF found THEN "ok" ELSE "404"))
             /\ UNCHANGED exc
       \/ /\ Raise(p, "GithubException:500")
          /\ Log(p, Call("get_git_tree", GITHUB_MAIN_BRANCH, Parent(path), NoSha, "error"))
          /\ UNCHANGED sha
    /\ UNCHANGED <<mainTree, refs, pulls, commits, args, postfix, main_branch, branch_name>>
    /\ UNCHANGED listVars

\* _previous_version_sha(repo, path): one get_git_tree call on the main branch;
\* UnknownObjectException (404) gives ""
LookupSha(p, at, path, next) ==
    /\ pc[p] = at
    /\ \/ \E resolved \in TreeRefResolves(Parent(path)) :
             LET found == resolved /\ TreeExists(mainTree, Parent(path)) IN
             /\ sha' = [sha EXCEPT ![p] =
                          IF found THEN _previous_version_sha(mainTree, path)
                          ELSE NoSha]
             /\ pc' = [pc EXCEPT ![p] = next]
             /\ Log(p, Call("get_git_tree", GITHUB_MAIN_BRANCH, Parent(path), NoSha,
                            IF found THEN "ok" ELSE "404"))
             /\ UNCHANGED exc
       \/ /\ Raise(p, "GithubException:500")
          /\ Log(p, Call("get_git_tree", GITHUB_MAIN_BRANCH, Parent(path), NoSha, "error"))
          /\ UNCHANGED sha
    /\ UNCHANGED <<mainTree, refs, pulls, commits, args, postfix, main_branch, branch_name>>
    /\ UNCHANGED listVars

\* sha=_previous_version_sha(repo, path=file_to_create[0])
sha_create(p) ==
    /\ args[p].file_to_create # <<>>
    /\ LookupSha(p, "sha_create", args[p].file_to_create[1], "update_file")

\* sha=_previous_version_sha(repo, path=file_to_delete)
sha_delete(p) ==
    /\ args[p].file_to_delete # NoPath
    /\ LookupSha(p, "sha_delete", args[p].file_to_delete, "delete_file")

\* variant: the token is compared with what main holds at path
WriteAccepted_main(tree, path, token) == mainTree[path] = token

\* platform: a write to path on a branch is accepted iff the expected token is
\* the blob sha the branch holds at path ("" for a path the branch lacks)
\* (and path is not a directory of the branch)
WriteAccepted(tree, path, token) == tree[path] = token /\ ~ TreeExists(tree, path)

\* platform: a delete is accepted iff the branch holds path with that blob sha
DeleteAccepted(tree, path, token) == tree[path] # NoSha /\ tree[path] = token

\* variant: a rejected write is retried with a recomputed token
update_file_retry(p) ==
    LET path == args[p].file_to_create[1]
        content == args[p].file_to_create[2]
        b == branch_name[p] IN
    /\ pc[p] = "update_file"
    /\ \/ /\ WriteAccepted(refs[b], path, sha[p])
          /\ refs' = [refs EXCEPT ![b][path] = BlobSha(content)]
          /\ pc' = [pc EXCEPT ![p] = AfterCreate(args[p])]
          /\ Log(p, Call("update_file", b, path, sha[p], "ok"))
          /\ UNCHANGED exc
       \/ /\ ~WriteAccepted(refs[b], path, sha[p])
          /\ Len(calls[p]) < 12
          /\ pc' = [pc EXCEPT ![p] = "sha_create"]
          /\ Log(p, Call("update_file", b, path, sha[p], "409"))
          /\ UNCHANGED <<refs, exc>>
       \/ /\ Raise(p, "GithubException:500")
          /\ Log(p, Call("update_file", b, path, sha[p], "error"))
          /\ UNCHANGED refs
    /\ UNCHANGED <<mainTree, pulls, commits, args, postfix, main_branch, branch_name, sha>>
    /\ UNCHANGED listVars

\* repo.update_file(path, message, content, sha, branch=branch_name)
update_file(p) ==
    LET path == args[p].file_to_create[1]
        content == args[p].file_to_create[2]
        b == branch_name[p] IN
    /\ pc[p] = "update_file"
    /\ \/ /\ WriteAccepted(refs[b], path, sha[p])
          /\ refs' = [refs EXCEPT ![b][path] = BlobSha(content)]
          /\ pc' = [pc EXCEPT ![p] = AfterCreate(args[p])]
          /\ Log(p, Call("update_file", b, path, sha[p], "ok"))
          /\ UNCHANGED exc
       \/ /\ ~WriteAccepted(refs[b], path, sha[p])
          /\ Raise(p, "GithubException:409")
          /\ Log(p, Call("update_file", b, path, sha[p], "409"))
          /\ UNCHANGED refs
       \/ /\ Raise(p, "GithubException:500")
          /\ Log(p, Call("update_file", b, path, sha[p], "error"))
          /\ UNCHANGED refs
    /\ UNCHANGED <<mainTree, pulls, commits, args, postfix, main_branch, branch_name, sha>>
    /\ UNCHANGED listVars

\* repo.delete_file(path, message, sha, branch=branch_name)
delete_file(p) ==
    LET path == args[p].file_to_delete
        b == branch_name[p] IN
    /\ pc[p] = "delete_file"
    /\ \/ /\ DeleteAccepted(refs[b], path, sha[p])
          /\ refs' = [refs EXCEPT ![b][path] = NoSha]
          /\ pc' = [pc EXCEPT ![p] = "create_pull"]
          /\ Log(p, Call("delete_file", b, path, sha[p], "ok"))
          /\ UNCHANGED exc
       \/ /\ ~DeleteAccepted(refs[b], path, sha[p])
          /\ Raise(p, "GithubException:409")
          /\ Log(p, Call("delete_file", b, path, sha[p], "409"))
          /\ UNCHANGED refs
       \/ /\ Raise(p, "GithubException:500")
          /\ Log(p, Call("delete_file", b, path, sha[p], "error"))
          /\ UNCHANGED refs
    /\ UNCHANGED <<mainTree, pulls, commits, args, postfix, main_branch, branch_name, sha>>
    /\ UNCHANGED listVars

\* the pull request the platform makes for repo.create_pull(title, body, head, base)
NewPull(number, head, title, body) ==
    [number |-> number, head |-> head, base |-> GITHUB_MAIN_BRANCH, title |-> title,
     body |-> body, labels |-> <<>>, state |-> "open", merged_at |-> None,
     html_url |-> "pull/" \o ToString(number), created_at |-> "t1"]

\* pr = repo.create_pull(title, body, head=branch_name, base=main)
create_pull(p) ==
    /\ pc[p] = "create_pull"
    /\ \/ /\ pulls' = Append(pulls, NewPull(Len(pulls) + 1, branch_name[p],
                                            args[p].pr_title, args[p].pr_body))
          /\ pc' = [pc EXCEPT ![p] = AfterPull(args[p])]
          /\ Log(p, Call("create_pull", branch_name[p], NoPath, NoSha, "ok"))
          /\ UNCHANGED exc
       \/ /\ Raise(p, "GithubException:500")
          /\ Log(p, Call("create_pull", branch_name[p], NoPath, NoSha, "error"))
          /\ UNCHANGED pulls
    /\ UNCHANGED <<mainTree, refs, commits, args, postfix, main_branch, branch_name, sha>>
    /\ UNCHANGED listVars

\* the pull request create_pull returned to submission p
PullOf(p) == CHOOSE i \in 1..Len(pulls) : pulls[i].head = branch_name[p]

\* if labels: pr.set_labels(*labels)
set_labels(p) ==
    /\ pc[p] = "set_labels"
    /\ \/ /\ pulls' = [pulls EXCEPT ![PullOf(p)].labels = args[p].labels]
          /\ pc' = [pc EXCEPT ![p] = "done"]
          /\ Log(p, Call("set_labels", branch_name[p], NoPath, NoSha, "ok"))
          /\ UNCHANGED exc
       \/ /\ Raise(p, "GithubException:500")
          /\ Log(p, Call("set_labels", branch_name[p], NoPath, NoSha, "error"))
          /\ UNCHANGED pulls
    /\ UNCHANGED <<mainTree, refs, commits, args, postfix, main_branch, branch_name, sha>>
    /\ UNCHANGED listVars

\* another actor (a merge, a direct push) changes the content of main at path
ExternalCommit(path, s) ==
    /\ commits < MaxCommits
    /\ s # mainTree[path]
    /\ mainTree' = [mainTree EXCEPT ![path] = s]
    /\ ValidTree(mainTree')
    /\ commits' = commits + 1
    /\ UNCHANGED <<refs, pulls>>
    /\ UNCHANGED subVars
    /\ UNCHANGED listVars

(***************************************************************************)
(* PullRequestState and PullRequestBody                                    *)
(***************************************************************************)
\* variant: the merge timestamp is looked at before the raw state
from_pull_request_merged_first(pr) ==
    IF pr.merged_at # None THEN "Merged"
    ELSE IF pr.state = "open" THEN "Pending"
    ELSE "Rejected"

\* variant: merged_at is not looked at
from_pull_request_by_state(pr) ==
    IF pr.state = "open" THEN "Pending" ELSE "Rejected"

\* PullRequestState.from_pull_request(pr)
from_pull_request(pr) ==
    IF pr.state = "open" THEN "Pending"
    ELSE IF pr.merged_at # None THEN "Merged"
    ELSE "Rejected"

\* the dataclass fields json.loads(data) has to supply, and those deserialize supplies
BodyFields == {"filename", "item_type", "change_type", "user", "data_owner"}
OwnFields == {"url", "state", "created_at"}

\* A pull-request body is [kind, obj]: kind "none" (pr.body is None), "text" (not
\* JSON), "json_other" (JSON, not an object) or "json_object", whose members obj
\* holds as <<key, JSON type, value>>.  Two more kinds are JSON documents that
\* json.loads does not get through: "json_huge" has an integer of more than 4300
\* digits somewhere (int() raises a plain ValueError), "json_deep" is nested
\* deeper than the interpreter's recursion limit (RecursionError).
Keys(obj) == {m[1] : m \in obj}
Member(obj, k) == CHOOSE m \in obj : m[1] = k
JsonObject(obj) == [kind |-> "json_object", obj |-> obj]

\* the JSON type json.dumps writes a value of a Python type as: a ChangeType is a
\* str and is written as the string that is its value
JsonType(t) == IF t = "ChangeType" THEN "str" ELSE t

\* variant: every field is written, url, created_at and state included
serialize_all(d) ==
    JsonObject({<<k, JsonType(d[k][1]), d[k][2]>> : k \in DOMAIN d})

\* PullRequestBody.serialize(): json.dumps of the fields other than url,
\* created_at and state
serialize(d) ==
    JsonObject({<<k, JsonType(d[k][1]), d[k][2]>> : k \in BodyFields})

\* variant: keys that are no field of the dataclass are ignored
DeserializeRaises_tolerant(data) ==
    IF data.kind = "text" THEN "DeserializeError"
    ELSE IF data.kind = "none" THEN "DeserializeError"
    ELSE IF data.kind = "json_other" THEN "DeserializeError"
    ELSE IF data.kind = "json_huge" THEN "ValueError"
    ELSE IF data.kind = "json_deep" THEN "RecursionError"
    ELSE IF ~ (BodyFields \subseteq Keys(data.obj)) THEN "DeserializeError"
    ELSE None

\* the exception PullRequestBody.deserialize(data, ...) raises, None if it
\* returns: json.JSONDecodeError and TypeError are turned into DeserializeError,
\* what else json.loads raises leaves deserialize as it is
DeserializeRaises(data) ==
    IF data.kind = "text" THEN "DeserializeError"            \* json.JSONDecodeError
    ELSE IF data.kind = "none" THEN "DeserializeError"       \* TypeError of json.loads
    ELSE IF data.kind = "json_huge" THEN "ValueError"        \* not caught
    ELSE IF data.kind = "json_deep" THEN "RecursionError"    \* not caught
    ELSE IF data.kind = "json_other" THEN "DeserializeError" \* TypeError of `**`
    ELSE IF Keys(data.obj) \cap OwnFields # {} THEN "DeserializeError"  \* given twice
    ELSE IF Keys(data.obj) # BodyFields THEN "DeserializeError" \* unexpected or missing
    ELSE None

\* the value PullRequestBody.deserialize returns when it returns
deserialize(data, url, state, created_at) ==
    [k \in BodyFields |-> <<Member(data.obj, k)[2], Member(data.obj, k)[3]>>]
      @@ [url |-> <<"str", url>>, state |-> <<"str", state>>,
          created_at |-> <<"datetime", created_at>>]

(***************************************************************************)
(* Listing: the generator pull_requests(), one pull request per action     *)
(***************************************************************************)
\* `except PullRequestBody.DeserializeError:` the exceptions the loop body catches
Caught(e) == e = "DeserializeError"

\* the objects the loop runs over: the first turn asks the platform for the
\* list (the lists here fit in one page of the PaginatedList), the later turns
\* read the objects that request returned, whatever the platform holds by then
PullsListed == IF cursor = 1 THEN pulls ELSE page

\* one turn of `for pr in _repo().get_pulls(state="all")`; a GithubException of
\* the request for the list is not caught and leaves the generator
pull_requests ==
    /\ listExc = None
    /\ \/ /\ cursor <= Len(PullsListed)
          /\ page' = PullsListed
          /\ LET pr == PullsListed[cursor]
                 state == from_pull_request(pr)
                 e == DeserializeRaises(pr.body)
             IN  IF e = None
                 THEN /\ yielded' = Append(yielded,
                           deserialize(pr.body, pr.html_url, state, pr.created_at))
                      /\ cursor' = cursor + 1
                      /\ UNCHANGED listExc
                 ELSE IF Caught(e)
                 THEN \* "Found incompatible PR, ignoring.."
                      /\ cursor' = cursor + 1
                      /\ UNCHANGED <<yielded, listExc>>
                 ELSE \* the exception leaves the generator
                      /\ listExc' = e
                      /\ UNCHANGED <<cursor, yielded>>
       \/ /\ cursor = 1
          /\ listExc' = "GithubException:500"
          /\ UNCHANGED <<page, cursor, yielded>>
    /\ UNCHANGED <<mainTree, refs, pulls, commits>>
    /\ UNCHANGED subVars

\* pull_requests_for_user(username=username), which views.py imports: the
\* descriptors pull_requests() yields whose user is username
pull_requests_for_user(username) ==
    SelectSeq(yielded, LAMBDA d : d.user = <<"str", username>>)

(***************************************************************************)
(* Initial states                                                          *)
(***************************************************************************)
\* a change descriptor as views.py builds it before a pull request exists
Descriptor(filename, user) ==
    [filename |-> <<"str", filename>>, item_type |-> <<"str", "product">>,
     change_type |-> <<"ChangeType", "Add">>, user |-> <<"str", user>>,
     data_owner |-> <<"bool", "false">>,
     url |-> <<"null", None>>, state |-> <<"str", "Pending">>,
     created_at |-> <<"null", None>>]

Args(base, create, delete, labels) ==
    [branch_base_name |-> base, pr_title |-> "Add item",
     pr_body |-> serialize(Descriptor("x.json", "bob")),
     file_to_create |-> create, file_to_delete |-> delete, labels |-> labels]

Bases == {"add-item", "add-item-2"}

\* the branches base, base-2, ..., base-k
Taken(base, k) == {BranchName(base, n) : n \in 1..k}

\* what the locals of a submission hold before they are assigned
NoTree == [q \in Paths |-> NoSha]

InitSubmissions(argSet, rivalSet) ==
    /\ \E a \in argSet, r \in rivalSet : args = [p \in Procs |-> IF p = "p1" THEN a ELSE r]
    /\ pc = [p \in Procs |-> "get_branch"]
    /\ postfix = [p \in Procs |-> 1]
    /\ main_branch = [p \in Procs |-> NoTree]
    /\ branch_name = [p \in Procs |-> None]
    /\ sha = [p \in Procs |-> None]
    /\ exc = [p \in Procs |-> None]
    /\ calls = [p \in Procs |-> <<>>]

InitLister ==
    /\ page = <<>>
    /\ cursor = 1
    /\ yielded = <<>>
    /\ listExc = None

\* submissions: every combination of create, delete and labels
SubmitArgs ==
    { Args("add-item", c, d, l) :
        c \in {<<>>} \cup {<<q, "c2">> : q \in Paths},
        d \in {NoPath} \cup Paths,
        l \in {<<>>, <<"catalog">>} }

\* the submission racing with it: a write to alice/foo.json from the same base name
RivalArgs == { Args("add-item", <<PathFoo, "c1">>, NoPath, <<>>) }

Init ==
    /\ \E s \in {NoSha, "s1"} : mainTree = [q \in Paths |-> IF q = PathFoo THEN s ELSE NoSha]
    /\ \E k \in 0..1 : refs = [b \in Taken("add-item", k) |-> mainTree]
    /\ pulls = <<>>
    /\ commits = 0
    /\ InitSubmissions(SubmitArgs, RivalArgs)
    /\ InitLister

Next ==
    \/ \E p \in Procs :
          \/ get_branch(p)
          \/ create_git_ref(p)
          \/ sha_create(p)
          \/ update_file(p)
          \/ sha_delete(p)
          \/ delete_file(p)
          \/ create_pull(p)
          \/ set_labels(p)
    \/ \E q \in DOMAIN mainTree, s \in Shas \cup {NoSha} : ExternalCommit(q, s)

Spec == Init /\ [][Next]_vars

(***************************************************************************)
(* One submission alone, in a repository where alice may hold two files    *)
(***************************************************************************)
SoloArgs ==
    { Args("add-item", c, d, l) :
        c \in {<<>>, <<PathFoo, "c2">>, <<PathTop, "c2">>},
        d \in {NoPath, PathFoo, PathBar},
        l \in {<<>>, <<"catalog">>} }

InitSolo ==
    /\ mainTree \in [{PathFoo, PathBar, PathSub, PathTop} -> {NoSha, "s1"}]
    /\ ValidTree(mainTree)
    /\ \E k \in 0..1 : refs = [b \in Taken("add-item", k) |-> mainTree]
    /\ pulls = <<>>
    /\ commits = 0
    /\ \E a \in SoloArgs : args = [p \in Procs |-> a]
    /\ pc = [p \in Procs |-> IF p = "p1" THEN "get_branch" ELSE "off"]
    /\ postfix = [p \in Procs |-> 1]
    /\ main_branch = [p \in Procs |-> NoTree]
    /\ branch_name = [p \in Procs |-> None]
    /\ sha = [p \in Procs |-> None]
    /\ exc = [p \in Procs |-> None]
    /\ calls = [p \in Procs |-> <<>>]
    /\ InitLister

SpecSolo == InitSolo /\ [][Next]_vars

(***************************************************************************)
(* Branch allocation alone: two calls of _create_branch, any number of     *)
(* branches taken beforehand                                               *)
(***************************************************************************)
AllocArgs == { Args(b, <<>>, NoPath, <<>>) : b \in Bases }

\* base .. base-k taken, possibly with one more name taken after a gap
TakenSets ==
    {Taken("add-item", k) : k \in 0..(MaxPostfix + 2)}
      \cup {Taken("add-item", k) \cup {BranchName("add-item", k + 2)} : k \in 0..2}

InitAlloc ==
    /\ mainTree = [q \in Paths |-> IF q = PathFoo THEN "s1" ELSE NoSha]
    /\ \E taken \in TakenSets : refs = [b \in taken |-> mainTree]
    /\ pulls = <<>>
    /\ commits = 0
    /\ InitSubmissions(AllocArgs, AllocArgs)
    /\ InitLister

\* _create_branch has returned to create_pull_request once pc is "create_pull"
NextAlloc ==
    \E p \in Procs :
        \/ get_branch(p)
        \/ create_git_ref(p)

SpecAlloc == InitAlloc /\ [][NextAlloc]_vars

\* every platform call returns (PyGithub calls are blocking requests with a
\* timeout), so a submission that has a call to make makes it
SpecAllocFair ==
    /\ InitAlloc
    /\ [][NextAlloc]_vars
    /\ \A p \in Procs : WF_vars(get_branch(p) \/ create_git_ref(p))

(***************************************************************************)
(* Listing alone: any pull requests on the platform, one run of the lister *)
(***************************************************************************)
\* length of the longest list of pull requests
MaxPulls == 2

\* pr.state: "open" or "closed" on the platform; "unknown" stands for any other value
RawStates == {"open", "closed", "unknown"}

BodyBob == serialize(Descriptor("x.json", "bob"))
BodyAlice == serialize(Descriptor("foo.json", "alice"))
BodyNoUser == JsonObject({m \in BodyBob.obj : m[1] # "user"})
BodyExtra == JsonObject(BodyBob.obj \cup {<<"comment", "str", "hello">>})
\* `filename` is missing
BodyNoFilename == JsonObject({m \in BodyBob.obj : m[1] # "filename"})
\* data_owner is a JSON string where the dataclass declares a bool
BodyMistyped ==
    JsonObject({m \in BodyBob.obj : m[1] # "data_owner"}
                  \cup {<<"data_owner", "str", "yes">>})
\* a complete body that also has the key `url`
BodyUrl == JsonObject(BodyBob.obj \cup {<<"url", "str", "pull/9">>})
\* the five keys, with a 5000-digit integer as filename
BodyHuge ==
    [kind |-> "json_huge",
     obj |-> {m \in BodyBob.obj : m[1] # "filename"}
                \cup {<<"filename", "number", "5000 digits">>}]
\* '[' * 1100 + ']' * 1100
BodyDeep == [kind |-> "json_deep", obj |-> {}]
BodyNone == [kind |-> "none", obj |-> {}]
BodyText == [kind |-> "text", obj |-> {}]
BodyOther == [kind |-> "json_other", obj |-> {}]

ListBodies ==
    {BodyBob, BodyAlice, BodyNoUser, BodyNoFilename, BodyExtra, BodyMistyped,
     BodyUrl, BodyHuge, BodyDeep, BodyNone, BodyText, BodyOther}

\* a pull request as get_pulls(state="all") returns it
PullObject(number, body, state, merged_at) ==
    [NewPull(number, "branch-" \o ToString(number), "Add item", body)
        EXCEPT !.state = state, !.merged_at = merged_at]

\* pulls is any list of at most MaxPulls pull requests
AnyPulls ==
    \E n \in 0..MaxPulls :
        \E b \in [1..n -> ListBodies], st \in [1..n -> RawStates],
           m \in [1..n -> {None, "t2"}] :
            pulls = [i \in 1..n |-> PullObject(i, b[i], st[i], m[i])]

InitList ==
    /\ mainTree = NoTree
    /\ refs = [b \in {} |-> NoTree]
    /\ AnyPulls
    /\ commits = 0
    /\ args = [p \in Procs |-> Args("add-item", <<>>, NoPath, <<>>)]
    /\ pc = [p \in Procs |-> "off"]
    /\ postfix = [p \in Procs |-> 1]
    /\ main_branch = [p \in Procs |-> NoTree]
    /\ branch_name = [p \in Procs |-> None]
    /\ sha = [p \in Procs |-> None]
    /\ exc = [p \in Procs |-> None]
    /\ calls = [p \in Procs |-> <<>>]
    /\ InitLister

NextList == pull_requests

SpecList == InitList /\ [][NextList]_vars

(***************************************************************************)
(* Listing again and again while pull requests are closed and merged       *)
(***************************************************************************)
\* most descriptors yielded before pull_requests() is no longer called again
MaxYielded == 3

LiveBodies == {BodyBob, BodyUrl, BodyText}

\* the platform: a maintainer closes (merged_at = None) or merges an open pull
\* request
ClosePull(i, merged_at) ==
    /\ pulls[i].state = "open"
    /\ pulls' = [pulls EXCEPT ![i].state = "closed", ![i].merged_at = merged_at]
    /\ UNCHANGED <<mainTree, refs, commits>>
    /\ UNCHANGED subVars
    /\ UNCHANGED listVars

\* pull_requests() is called again after the previous call has ended; yielded
\* goes on collecting what the calls yield
list_again ==
    /\ listExc = None
    /\ cursor > 1
    /\ cursor > Len(page)
    /\ Len(yielded) < MaxYielded
    /\ cursor' = 1
    /\ UNCHANGED <<page, yielded, listExc>>
    /\ UNCHANGED <<mainTree, refs, pulls, commits>>
    /\ UNCHANGED subVars

\* the pull requests are open, as create_pull made them
InitLive ==
    /\ mainTree = NoTree
    /\ refs = [b \in {} |-> NoTree]
    /\ \E n \in 1..MaxPulls : \E b \in [1..n -> LiveBodies] :
          pulls = [i \in 1..n |-> PullObject(i, b[i], "open", None)]
    /\ commits = 0
    /\ args = [p \in Procs |-> Args("add-item", <<>>, NoPath, <<>>)]
    /\ pc = [p \in Procs |-> "off"]
    /\ postfix = [p \in Procs |-> 1]
    /\ main_branch = [p \in Procs |-> NoTree]
    /\ branch_name = [p \in Procs |-> None]
    /\ sha = [p \in Procs |-> None]
    /\ exc = [p \in Procs |-> None]
    /\ calls = [p \in Procs |-> <<>>]
    /\ InitLister

NextLive ==
    \/ pull_requests
    \/ list_again
    \/ \E i \in 1..Len(pulls), t \in {None, "t2"} : ClosePull(i, t)

SpecLive == InitLive /\ [][NextLive]_vars

(***************************************************************************)
(* Round trip: the one pull request listed has a body that serialize wrote *)
(***************************************************************************)
\* the members of ChangeType
ChangeTypes == {"Add", "Update", "Delete"}

\* the PullRequestBody objects serialize is applied to; url, state and
\* created_at are either unset or those of another pull request
Descriptors ==
    { [filename |-> <<"str", f>>, item_type |-> <<"str", t>>,
       change_type |-> <<"ChangeType", c>>, user |-> <<"str", u>>,
       data_owner |-> <<"bool", o>>,
       url |-> own[1], state |-> <<"str", own[2]>>, created_at |-> own[3]] :
        f \in {"x.json", "foo.json"}, t \in {"product", "project"},
        c \in ChangeTypes, u \in {"bob", "alice"}, o \in {"true", "false"},
        own \in {<<<<"null", None>>, "Pending", <<"null", None>>>>,
                 <<<<"str", "pull/9">>, "Merged", <<"datetime", "t0">>>>} }

InitRound ==
    /\ mainTree = NoTree
    /\ refs = [b \in {} |-> NoTree]
    /\ \E d \in Descriptors, st \in RawStates, m \in {None, "t2"} :
          pulls = <<PullObject(1, serialize(d), st, m)>>
    /\ commits = 0
    /\ args = [p \in Procs |-> Args("add-item", <<>>, NoPath, <<>>)]
    /\ pc = [p \in Procs |-> "off"]
    /\ postfix = [p \in Procs |-> 1]
    /\ main_branch = [p \in Procs |-> NoTree]
    /\ branch_name = [p \in Procs |-> None]
    /\ sha = [p \in Procs |-> None]
    /\ exc = [p \in Procs |-> None]
    /\ calls = [p \in Procs |-> <<>>]
    /\ InitLister

SpecRound == InitRound /\ [][NextList]_vars

(***************************************************************************)
(* Properties                                                              *)
(***************************************************************************)
\* the calls of submission p to op, in order
CallsOf(p, op) == SelectSeq(calls[p], LAMBDA c : c.op = op)

\* how many calls of submission p to op ended with result
Count(p, op, result) ==
    Len(SelectSeq(calls[p], LAMBDA c : c.op = op /\ c.result = result))

\* the status the resolver is specified to give
ExpectedStatus(raw_state, merged_at) ==
    CASE raw_state = "open" -> "Pending"
      [] raw_state # "open" /\ merged_at # None -> "Merged"
      [] raw_state # "open" /\ merged_at = None -> "Rejected"

\* C1: the status of a pull request is Pending when its raw state is "open"
\* whatever merged_at is, Merged when it is not open and merged_at is set,
\* Rejected when it is not open and merged_at is null; the descriptors the lister
\* yields carry that status.
C1_StatusResolver ==
    \A i \in 1..Len(pulls) :
        LET want == ExpectedStatus(pulls[i].state, pulls[i].merged_at) IN
        /\ from_pull_request(pulls[i]) = want
        /\ \A j \in 1..Len(yielded) :
              yielded[j].url[2] = pulls[i].html_url => yielded[j].state[2] = want

\* an open pull request with a merge timestamp listed as Pending, a closed one
\* without as Rejected
C1_Witness ==
    /\ Len(pulls) = 2 /\ cursor = 3 /\ Len(yielded) = 2
    /\ pulls[1].state = "open" /\ pulls[1].merged_at # None
    /\ yielded[1].state[2] = "Pending"
    /\ pulls[2].state = "closed" /\ pulls[2].merged_at = None
    /\ yielded[2].state[2] = "Rejected"

\* the step in which _create_branch returns a name to submission p
AllocStep(p) == branch_name[p] = None /\ branch_name'[p] # None

\* C2: _create_branch returns the first of base, base-2, base-3, ... that is not
\* a branch when it is tried, and creates exactly that branch: the names before
\* it are all taken, the name itself was not, and nothing else changes in the
\* refs. Branches are never removed, so the name was no branch before the call.
C2_FirstFreeName ==
    [][ /\ DOMAIN refs \subseteq DOMAIN refs'
        /\ \A p \in Procs :
              AllocStep(p) =>
                LET n == branch_name'[p]
                    base == args[p].branch_base_name
                IN  /\ \E k \in 1..(MaxPostfix + 1) :
                          /\ n = BranchName(base, k)
                          /\ \A j \in 1..(k - 1) : BranchName(base, j) \in DOMAIN refs
                    /\ n \notin DOMAIN refs
                    /\ DOMAIN refs' = DOMAIN refs \cup {n}
                    /\ \A b \in DOMAIN refs : refs'[b] = refs[b]
      ]_vars

\* "add-item" and "add-item-2" were taken, and the request for "add-item" got
\* "add-item-3"
C2_Witness ==
    /\ args["p1"].branch_base_name = "add-item"
    /\ branch_name["p1"] = "add-item-3"
    /\ branch_name["p2"] = None
    /\ DOMAIN refs = {"add-item", "add-item-2", "add-item-3"}

\* submission p ended after creation collided for the suffixes 1 to 16
Collided16(p) ==
    /\ pc[p] = "raised"
    /\ Count(p, "create_git_ref", "422") = MaxPostfix + 1

\* C3: after collisions for the suffixes 1 to 16 the allocation fails with the
\* dedicated BranchAllocationExhausted error, not the platform's error.
C3_Original ==
    \A p \in Procs : Collided16(p) => exc[p] = "BranchAllocationExhausted"

\* the names base, base-2 .. base-16 were all taken: the 16th creation, of
\* base-16, was the last call, and its GithubException(422) left the allocation
C3_Witness == \E p \in Procs : Collided16(p)

\* C4: two submissions with the same base name never get the same branch: a name
\* is created by at most one of them, and the one whose creation collides goes on
\* with the next suffix; it neither fails (before the retry limit) nor returns
\* the name the other created.
C4_DistinctBranches ==
    \A p \in Procs : \A q \in Procs \ {p} :
        args[p].branch_base_name = args[q].branch_base_name =>
            LET tries == CallsOf(p, "create_git_ref") IN
            /\ branch_name[p] # None => branch_name[p] # branch_name[q]
            /\ \A i \in 1..Len(tries) : \A j \in 1..Len(CallsOf(q, "create_git_ref")) :
                  ~ (/\ tries[i].result = "ok"
                     /\ CallsOf(q, "create_git_ref")[j].result = "ok"
                     /\ tries[i].branch = CallsOf(q, "create_git_ref")[j].branch)
            /\ \A i \in 1..Len(tries) :
                  /\ tries[i].branch = BranchName(args[p].branch_base_name, i)
                  /\ i < Len(tries) => tries[i].result = "422"
            /\ exc[p] = "GithubException:422" => Len(tries) = MaxPostfix + 1

\* both asked for the same base; p1 collided with the branch p2 had just created
\* and got the next name
C4_Witness ==
    /\ args["p1"].branch_base_name = args["p2"].branch_base_name
    /\ branch_name["p1"] # None /\ branch_name["p2"] # None
    /\ \E i \in 1..Len(calls["p1"]) :
          /\ calls["p1"][i].op = "create_git_ref"
          /\ calls["p1"][i].result = "422"
          /\ calls["p1"][i].branch = branch_name["p2"]
    /\ branch_name["p1"] =
          BranchName(args["p1"].branch_base_name, postfix["p2"] + 1)

\* the path submission p writes (file_to_create[0])
CreatePath(p) == args[p].file_to_create[1]

WriteStep(p) == pc[p] = "update_file" /\ pc'[p] # "update_file"

\* the step in which submission p looks up the token of the file it writes
LookupStep(p) == pc[p] = "sha_create" /\ pc'[p] = "update_file"

PullsOf(p) == {i \in 1..Len(pulls) : pulls[i].head = branch_name[p]}

\* the tree submission p's branch holds once its file operations are applied
BranchResult(p) ==
    LET a == args[p]
        written == IF a.file_to_create = <<>> THEN main_branch[p]
                   ELSE [main_branch[p] EXCEPT ![a.file_to_create[1]] =
                                                   BlobSha(a.file_to_create[2])]
    IN  IF a.file_to_delete = NoPath THEN written
        ELSE [written EXCEPT ![a.file_to_delete] = NoSha]

\* C7: a submission that succeeded made exactly one branch, one write iff create
\* was given, one delete iff delete was given, and one pull request from its
\* branch into main; it made no other attempt of these calls, and its branch
\* holds the tip it was created from with that write and delete applied.
C7_SideEffects ==
    \A p \in Procs :
        pc[p] = "done" =>
            /\ exc[p] = None
            /\ Count(p, "create_git_ref", "ok") = 1
            /\ branch_name[p] \in DOMAIN refs
            /\ Len(CallsOf(p, "update_file")) =
                  (IF args[p].file_to_create # <<>> THEN 1 ELSE 0)
            /\ Count(p, "update_file", "ok") = Len(CallsOf(p, "update_file"))
            /\ Len(CallsOf(p, "delete_file")) =
                  (IF args[p].file_to_delete # NoPath THEN 1 ELSE 0)
            /\ Count(p, "delete_file", "ok") = Len(CallsOf(p, "delete_file"))
            /\ Len(CallsOf(p, "create_pull")) = 1
            /\ Cardinality(PullsOf(p)) = 1
            /\ \A i \in PullsOf(p) :
                  /\ pulls[i].base = GITHUB_MAIN_BRANCH
                  /\ pulls[i].body = args[p].pr_body
            /\ refs[branch_name[p]] = BranchResult(p)

\* a submission with neither create nor delete ended with a branch equal to the
\* tip and one pull request, next to one that wrote a file
C7_Witness ==
    /\ pc["p1"] = "done" /\ pc["p2"] = "done"
    /\ args["p1"].file_to_create = <<>> /\ args["p1"].file_to_delete = NoPath
    /\ Len(pulls) = 2
    /\ refs[branch_name["p1"]] = main_branch["p1"]
    /\ refs[branch_name["p2"]][PathFoo] = "s1"

\* C8: once a call of a submission has failed, the submission does nothing more:
\* the failing call changes neither refs nor pull requests, no later call is
\* made, and the branch it allocated stays, holding what it held at the failure.
C8_NoRollback ==
    [][ \A p \in Procs :
          /\ (exc[p] = None /\ exc'[p] # None) =>
                /\ pc'[p] = "raised"
                /\ refs' = refs
                /\ pulls' = pulls
          /\ exc[p] # None =>
                /\ pc'[p] = pc[p] /\ exc'[p] = exc[p] /\ calls'[p] = calls[p]
                /\ branch_name[p] # None =>
                      /\ branch_name[p] \in DOMAIN refs'
                      /\ refs'[branch_name[p]] = refs[branch_name[p]]
      ]_vars

\* the submission wrote its file, then its delete failed: the branch is there
\* with the write, without a pull request, while main moved on
C8_Witness ==
    /\ pc["p1"] = "raised"
    /\ Count("p1", "update_file", "ok") = 1
    /\ calls["p1"][Len(calls["p1"])].op = "delete_file"
    /\ branch_name["p1"] \in DOMAIN refs
    /\ refs[branch_name["p1"]][CreatePath("p1")] = "s2"
    /\ PullsOf("p1") = {}
    /\ commits > 0

\* C9: a write or delete the platform rejects as a conflict ends the submission
\* with that error: it is the last call, it was tried once, after one token
\* lookup per file operation, and no pull request is opened from the branch.
C9_ConflictFatal ==
    \A p \in Procs : \A i \in 1..Len(calls[p]) :
        (calls[p][i].op \in {"update_file", "delete_file"} /\ calls[p][i].result = "409") =>
            /\ i = Len(calls[p])
            /\ pc[p] = "raised"
            /\ exc[p] = "GithubException:409"
            /\ Len(CallsOf(p, calls[p][i].op)) = 1
            /\ Len(CallsOf(p, "get_git_tree")) =
                  Len(CallsOf(p, "update_file")) + Len(CallsOf(p, "delete_file"))
            /\ Len(CallsOf(p, "create_pull")) = 0
            /\ PullsOf(p) = {}

\* a write was rejected as a conflict
C9_Witness ==
    /\ pc["p1"] = "raised"
    /\ calls["p1"][Len(calls["p1"])].op = "update_file"
    /\ calls["p1"][Len(calls["p1"])].result = "409"
    /\ args["p1"].file_to_delete # NoPath
    /\ args["p1"].labels # <<>>

\* the urls of the pull requests before index n whose body deserializes
DecodableUrls(n) ==
    LET ok == SelectSeq(SubSeq(pulls, 1, n - 1),
                        LAMBDA pr : DeserializeRaises(pr.body) = None)
    IN  [j \in 1..Len(ok) |-> ok[j].html_url]

\* C10 as stated: the lister yields one descriptor for each pull request whose
\* body decodes, in order, and none for the others (a body without `user`, a
\* null body, a body that is not JSON); no failure of decoding leaves the lister,
\* which can only end early with the platform's error of the listing request.
C10_SkipUndecodable ==
    /\ listExc \in {None, "GithubException:500"}
    /\ [j \in 1..Len(yielded) |-> yielded[j].url[2]] = DecodableUrls(cursor)
    /\ \A i \in 1..(cursor - 1) :
          LET n == Cardinality({j \in 1..Len(yielded) :
                                   yielded[j].url[2] = pulls[i].html_url})
          IN  /\ pulls[i].body \in {BodyNoUser, BodyNone, BodyText} => n = 0
              /\ pulls[i].body \in {BodyBob, BodyAlice} => n = 1

\* the body of the first pull request has a 5000-digit integer: the ValueError
\* of json.loads left the lister, and bob's pull request after it is not listed
C10_Witness ==
    /\ Len(pulls) = 2 /\ cursor = 1
    /\ pulls[1].body = BodyHuge
    /\ pulls[2].body = BodyBob
    /\ listExc = "ValueError"
    /\ yielded = <<>>

\* the records yielded for pull request i
YieldedFor(i) == {j \in 1..Len(yielded) : yielded[j].url[2] = pulls[i].html_url}

\* the JSON type the specification requires of the value of key k
RequiredType(k) == IF k = "data_owner" THEN "bool" ELSE "str"

\* C11 as stated: a body is decoded exactly when it is a JSON object that has
\* the five required keys with values of the right type, extra keys being
\* ignored.
C11_Original ==
    \A i \in 1..(cursor - 1) :
        LET b == pulls[i].body IN
        (YieldedFor(i) # {}) <=>
            /\ b.kind = "json_object"
            /\ \A k \in {"filename", "item_type", "change_type", "user", "data_owner"} :
                  /\ k \in Keys(b.obj)
                  /\ Member(b.obj, k)[2] = RequiredType(k)

\* C11 as amended: a body is decoded exactly when json.loads gets through it and
\* gives an object whose keys are the five required keys and no other; an extra
\* key makes decoding fail, the type of a value is not looked at.  The failure
\* is a DeserializeError, which the lister catches, except for a document with
\* an integer of more than 4300 digits (ValueError) and one nested too deep
\* (RecursionError): these two leave deserialize, and the lister, as they are.
C11_ExactKeys ==
    /\ \A i \in 1..Len(pulls) :
          LET b == pulls[i].body
              exact == /\ b.kind = "json_object"
                       /\ Keys(b.obj) =
                            {"filename", "item_type", "change_type", "user", "data_owner"}
          IN  /\ DeserializeRaises(b) =
                    (CASE exact -> None
                       [] b.kind = "json_huge" -> "ValueError"
                       [] b.kind = "json_deep" -> "RecursionError"
                       [] OTHER -> "DeserializeError")
              /\ i < cursor => Cardinality(YieldedFor(i)) = (IF exact THEN 1 ELSE 0)
              /\ b \in {BodyNoFilename, BodyExtra, BodyUrl, BodyText} => ~ exact
              /\ b = BodyMistyped => exact
    /\ listExc \in {None, "GithubException:500", "ValueError", "RecursionError"}
    /\ listExc = "ValueError" => pulls[cursor].body.kind = "json_huge"
    /\ listExc = "RecursionError" => pulls[cursor].body.kind = "json_deep"

\* a body with an extra key was skipped, and one whose data_owner is a string
\* was decoded with that string
C11_Witness ==
    /\ Len(pulls) = 2 /\ cursor = 3
    /\ pulls[1].body = BodyExtra
    /\ pulls[2].body = BodyMistyped
    /\ Len(yielded) = 1
    /\ yielded[1].url[2] = pulls[2].html_url
    /\ yielded[1].data_owner = <<"str", "yes">>

\* C12: for every PullRequestBody D, deserialize(D.serialize(), ...) succeeds
\* and has D's filename, item_type, change_type, user and data_owner (the change
\* type as the string that is the member's value), whatever url, state and
\* created_at D had; those three are the ones given to deserialize.
C12_RoundTrip ==
    \A i \in 1..Len(pulls) : \A d \in Descriptors :
        pulls[i].body = serialize(d) =>
            /\ DeserializeRaises(pulls[i].body) = None
            /\ i < cursor =>
                  /\ Cardinality(YieldedFor(i)) = 1
                  /\ \A j \in YieldedFor(i) :
                        /\ \A k \in {"filename", "item_type", "user", "data_owner"} :
                              yielded[j][k] = d[k]
                        /\ yielded[j].change_type = <<"str", d.change_type[2]>>
                        /\ yielded[j].url = <<"str", pulls[i].html_url>>
                        /\ yielded[j].created_at = <<"datetime", pulls[i].created_at>>
                        /\ yielded[j].state[2] =
                              ExpectedStatus(pulls[i].state, pulls[i].merged_at)

\* a Delete by a data owner, serialized from a descriptor that said Merged at
\* pull/9, came back from a closed pull request as Rejected at pull/1
C12_Witness ==
    /\ cursor = 2 /\ Len(yielded) = 1
    /\ \E d \in Descriptors :
          /\ pulls[1].body = serialize(d)
          /\ d.change_type = <<"ChangeType", "Delete">>
          /\ d.data_owner = <<"bool", "true">>
          /\ d.url = <<"str", "pull/9">> /\ d.state[2] = "Merged"
          /\ yielded[1].data_owner = d.data_owner
          /\ yielded[1].filename = d.filename
    /\ yielded[1].change_type = <<"str", "Delete">>
    /\ yielded[1].url = <<"str", "pull/1">>
    /\ pulls[1].state = "closed" /\ pulls[1].merged_at = None
    /\ yielded[1].state[2] = "Rejected"

\* C13: a descriptor is yielded with the url and created_at of the pull request
\* object the lister has come to and the status resolved from that object's
\* state and merged_at; the objects are those the listing's request returned,
\* the pull requests as the platform held them at that request.  A body that has
\* url, state or created_at itself is not yielded, so the body never sets
\* them.  What was yielded stays as it is; a listing made after the pull request
\* was closed or merged gives the new status.
C13_LiveFields ==
    [][ /\ Len(yielded') \in {Len(yielded), Len(yielded) + 1}
        /\ SubSeq(yielded', 1, Len(yielded)) = yielded
        /\ Len(yielded') = Len(yielded) + 1 =>
              LET d == yielded'[Len(yielded')]
                  pr == page'[cursor]
              IN  /\ pulls' = pulls
                  /\ page' = (IF cursor = 1 THEN pulls ELSE page)
                  /\ d.url = <<"str", pr.html_url>>
                  /\ d.created_at = <<"datetime", pr.created_at>>
                  /\ d.state[2] = ExpectedStatus(pr.state, pr.merged_at)
                  /\ Keys(pr.body.obj) \cap {"url", "state", "created_at"} = {}
                  /\ pr.body # BodyUrl
      ]_vars

\* the first listing gave pull/1 as Pending and, pull/2 having been merged
\* after its request, pull/2 as Pending too; the next listing gave Merged for
\* pull/1, merged in between, with the same body
C13_Witness ==
    /\ Len(pulls) = 2 /\ cursor = 2
    /\ pulls[1].body = BodyBob /\ pulls[2].body = BodyBob
    /\ pulls[1].state = "closed" /\ pulls[1].merged_at = "t2"
    /\ pulls[2].state = "closed" /\ pulls[2].merged_at = "t2"
    /\ Len(yielded) = 3
    /\ yielded[1].url[2] = "pull/1" /\ yielded[1].state[2] = "Pending"
    /\ yielded[2].url[2] = "pull/2" /\ yielded[2].state[2] = "Pending"
    /\ yielded[3].url[2] = "pull/1" /\ yielded[3].state[2] = "Merged"
    /\ yielded[1].filename = yielded[3].filename

\* the urls of the open and closed pull requests whose body has exactly the five
\* keys and gives user as the string u, in listing order
UrlsOfUser(u) ==
    LET mine == SelectSeq(pulls,
                   LAMBDA pr : /\ pr.body.kind = "json_object"
                               /\ Keys(pr.body.obj) = BodyFields
                               /\ Member(pr.body.obj, "user") = <<"user", "str", u>>)
    IN  [j \in 1..Len(mine) |-> mine[j].html_url]

\* the listing is over and the platform answered its request: the generator
\* came to the end of the pull requests or ended with an exception of its own
ListingOver ==
    \/ listExc = None /\ cursor > Len(pulls)
    \/ listExc \notin {None, "GithubException:500"}

\* C14: a listing that is over has given, of all the open and closed pull
\* requests, the descriptors of exactly the decodable ones, in listing order,
\* and pull_requests_for_user(u) exactly those of them whose body names u as
\* user, compared as whole strings ("Bob" is not "bob").
C14_ListForUser ==
    ListingOver =>
        /\ \A u \in {"bob", "alice", "Bob", "carol"} :
              LET got == pull_requests_for_user(u) IN
              /\ [j \in 1..Len(got) |-> got[j].url[2]] = UrlsOfUser(u)
              /\ \A j \in 1..Len(got) : got[j].user[2] = u
        /\ [j \in 1..Len(yielded) |-> yielded[j].url[2]] = DecodableUrls(Len(pulls) + 1)

\* the body of the first pull request nests too deep for the decoder; the
\* listing ended there with RecursionError, and alice's pull request, the
\* second, is not among hers
C14_Witness ==
    /\ Len(pulls) = 2 /\ cursor = 1
    /\ pulls[1].body = BodyDeep /\ pulls[2].body = BodyAlice
    /\ listExc = "RecursionError"
    /\ UrlsOfUser("alice") = <<"pull/2">>
    /\ pull_requests_for_user("alice") = <<>>

\* the step in which submission p gets the value of _previous_version_sha for
\* the file it writes (at = "sha_create") or deletes (at = "sha_delete")
LookupReturns(p, at) == pc[p] = at /\ pc'[p] \notin {at, "raised"}

\* the path that lookup is for
LookupPath(p, at) ==
    IF at = "sha_create" THEN args[p].file_to_create[1] ELSE args[p].file_to_delete

\* the names of the entries the directory dir has on main, files and
\* sub-directories
EntryNames(dir) ==
    {q[Len(dir) + 1] : q \in {r \in DOMAIN mainTree :
                                  mainTree[r] # "" /\ IsPrefix(dir, r)}}

\* C15: _previous_version_sha(path) is "" when main has no directory that is the
\* parent of path, "" when the directory is there without an entry of that name
\* (whatever other entries it has), and otherwise the id, never empty, of the
\* entry of that name: for a file the sha main holds for the path at the time of
\* the lookup.  The parent of a top-level path is the top of the repository.
C15_Locator ==
    [][ \A p \in Procs : \A at \in {"sha_create", "sha_delete"} :
          LookupReturns(p, at) =>
            LET path == LookupPath(p, at)
                names == EntryNames(Parent(path))
            IN  /\ calls'[p][Len(calls'[p])].op = "get_git_tree"
                /\ names = {} => sha'[p] = ""
                /\ (names # {} /\ Name(path) \notin names) => sha'[p] = ""
                /\ Name(path) \in names => sha'[p] # ""
                /\ mainTree[path] # "" => sha'[p] = mainTree[path]
      ]_vars

\* top.json is a file at the top of main; the lookup for it asked for the tree
\* "main:.", got 404 and gave no token, and the write was to follow as a new file
C15_Witness ==
    /\ pc["p1"] = "update_file"
    /\ args["p1"].file_to_create[1] = PathTop
    /\ commits = 0 /\ mainTree[PathTop] = "s1"
    /\ calls["p1"][Len(calls["p1"])] = Call("get_git_tree", "main", <<>>, "", "404")
    /\ sha["p1"] = ""

\* alice/foo.json is a directory of main; the lookup for the file of that name
\* gave the id of the directory
C15_Directory ==
    /\ pc["p1"] = "update_file"
    /\ args["p1"].file_to_create[1] = PathFoo
    /\ commits = 0 /\ mainTree[PathSub] = "s1"
    /\ sha["p1"] = "tree-s1"

\* the step in which submission p gets the answer to its delete_file call
DeleteStep(p) == pc[p] = "delete_file" /\ pc'[p] # "delete_file"

\* a submission that wrote a file whose directory main did not have, and ended
\* well, made one branch, one write with the empty token and one pull request with
\* the body it was given
NewItemSubmitted ==
    \A p \in Procs :
        LET lookups == CallsOf(p, "get_git_tree") IN
        (/\ pc[p] = "done"
         /\ args[p].file_to_create # <<>>
         /\ lookups[1].result = "404") =>
            /\ Count(p, "create_git_ref", "ok") = 1
            /\ CallsOf(p, "update_file") =
                  <<Call("update_file", branch_name[p], CreatePath(p), "", "ok")>>
            /\ Cardinality(PullsOf(p)) = 1
            /\ \A i \in PullsOf(p) :
                  /\ pulls[i].body = args[p].pr_body
                  /\ pulls[i].body = serialize(Descriptor("x.json", "bob"))

\* C16: the token sent with update_file or delete_file is the value of
\* _previous_version_sha for that path, computed on main as it is at the lookup,
\* which comes after the branch was created; it is "" whenever the lookup found
\* no directory.  A new item in a directory main lacks therefore takes one
\* branch creation, one write with the empty token and one pull request with the
\* serialized descriptor as body.
C16_TokenSent ==
    [][ /\ NewItemSubmitted'
        /\ \A p \in Procs :
              /\ \A at \in {"sha_create", "sha_delete"} :
                    LookupReturns(p, at) =>
                        /\ branch_name[p] \in DOMAIN refs
                        /\ sha'[p] = _previous_version_sha(mainTree, LookupPath(p, at))
                        /\ calls'[p][Len(calls'[p])].result = "404" => sha'[p] = ""
              /\ (pc[p] \in {"update_file", "delete_file"} /\ pc'[p] = pc[p]) =>
                    sha'[p] = sha[p]
              /\ WriteStep(p) =>
                    LET sent == calls'[p][Len(calls'[p])] IN
                    /\ sent.op = "update_file" /\ sent.branch = branch_name[p]
                    /\ sent.path = CreatePath(p) /\ sent.sha = sha[p]
              /\ DeleteStep(p) =>
                    LET sent == calls'[p][Len(calls'[p])] IN
                    /\ sent.op = "delete_file" /\ sent.branch = branch_name[p]
                    /\ sent.path = args[p].file_to_delete /\ sent.sha = sha[p]
      ]_vars

\* bob/x.json was submitted while main had no directory bob
C16_Witness ==
    /\ pc["p1"] = "done"
    /\ args["p1"].file_to_create = <<PathX, "c2">>
    /\ args["p1"].file_to_delete = NoPath
    /\ CallsOf("p1", "get_git_tree") = <<Call("get_git_tree", "main", <<"bob">>, "", "404")>>
    /\ CallsOf("p1", "update_file") =
          <<Call("update_file", branch_name["p1"], PathX, "", "ok")>>
    /\ Cardinality(PullsOf("p1")) = 1
    /\ refs[branch_name["p1"]][PathX] = "s2"

\* C17: when create_git_ref fails with another error than "the branch exists"
\* (or the read of the main tip fails), that error leaves create_pull_request as
\* it is: the failed call is the last call, no further name is tried, the
\* submission has created no branch, and it makes no token lookup, write, delete
\* or pull request.
C17_OtherErrorFatal ==
    \A p \in Procs : \A i \in 1..Len(calls[p]) :
        (calls[p][i].op \in {"get_branch", "create_git_ref"}
            /\ calls[p][i].result = "error") =>
            /\ i = Len(calls[p])
            /\ pc[p] = "raised"
            /\ exc[p] = "GithubException:500"
            /\ branch_name[p] = None
            /\ Count(p, "create_git_ref", "ok") = 0
            /\ \A j \in 1..(i - 1) :
                  \/ calls[p][j] = Call("get_branch", "main", NoPath, "", "ok")
                  \/ /\ calls[p][j].op = "create_git_ref"
                     /\ calls[p][j].result = "422"
            /\ \A j \in 1..Len(pulls) :
                  pulls[j].head \notin
                     {calls[p][k].branch : k \in {n \in 1..i : calls[p][n].op = "create_git_ref"}}
                  \/ \E q \in Procs \ {p} : pulls[j].head = branch_name[q]

\* the first name was taken, the creation of "add-item-2" failed with a server
\* error, and the submission, which had a file to write, ended there
C17_Witness ==
    /\ pc["p1"] = "raised" /\ exc["p1"] = "GithubException:500"
    /\ args["p1"].file_to_create # <<>> /\ args["p1"].labels # <<>>
    /\ Len(calls["p1"]) = 4
    /\ calls["p1"][2] = Call("create_git_ref", "add-item", NoPath, "", "422")
    /\ calls["p1"][4] = Call("create_git_ref", "add-item-2", NoPath, "", "error")
    /\ "add-item-2" \notin DOMAIN refs

\* the calls create_pull_request makes after _create_branch, for arguments a
CallsAfterBranch(a) ==
    (IF a.file_to_create # <<>> THEN <<"get_git_tree", "update_file">> ELSE <<>>)
      \o (IF a.file_to_delete # NoPath THEN <<"get_git_tree", "delete_file">> ELSE <<>>)
      \o <<"create_pull">>
      \o (IF a.labels # <<>> THEN <<"set_labels">> ELSE <<>>)

\* how many calls of submission p belong to _create_branch
AllocCalls(p) == Len(CallsOf(p, "get_branch")) + Len(CallsOf(p, "create_git_ref"))

\* C18: the calls of a submission are, in this order, the attempts of
\* _create_branch (tip read, then creation), then lookup and write if a file is
\* to be created, lookup and delete if one is to be deleted, create_pull, and
\* set_labels only if labels is not empty; a call is made only after the one
\* before it succeeded (a creation answered "exists" is followed by the next
\* attempt).  A pull request is there for the branch only after the file
\* operations succeeded, and it is there when set_labels fails.
C18_CallOrder ==
    \A p \in Procs :
        LET n == Len(calls[p])
            k == AllocCalls(p)
            rest == [i \in 1..(n - k) |-> calls[p][k + i].op]
            plan == CallsAfterBranch(args[p])
        IN  /\ \A i \in 1..k :
                  calls[p][i].op = (IF i % 2 = 1 THEN "get_branch" ELSE "create_git_ref")
            /\ Len(rest) <= Len(plan) /\ rest = SubSeq(plan, 1, Len(rest))
            /\ \A i \in 1..(n - 1) :
                  \/ calls[p][i].result = "ok"
                  \/ calls[p][i].op = "get_git_tree" /\ calls[p][i].result = "404"
                  \/ /\ calls[p][i].op = "create_git_ref" /\ calls[p][i].result = "422"
                     /\ calls[p][i + 1].op = "get_branch"
            /\ rest # <<>> => (k >= 2 /\ calls[p][k].result = "ok")
            /\ pc[p] = "done" => rest = plan
            /\ PullsOf(p) # {} <=> Count(p, "create_pull", "ok") = 1
            /\ PullsOf(p) # {} =>
                  /\ Count(p, "update_file", "ok") =
                        (IF args[p].file_to_create # <<>> THEN 1 ELSE 0)
                  /\ Count(p, "delete_file", "ok") =
                        (IF args[p].file_to_delete # NoPath THEN 1 ELSE 0)
                  /\ refs[branch_name[p]] = BranchResult(p)
            /\ Count(p, "set_labels", "error") = 1 =>
                  /\ Cardinality(PullsOf(p)) = 1
                  /\ pulls[PullOf(p)].labels = <<>>

\* a write, a delete and the pull request succeeded, in that order after a
\* second allocation attempt, and set_labels failed: the pull request is there
\* without labels
C18_Witness ==
    /\ pc["p1"] = "raised"
    /\ [i \in 1..Len(calls["p1"]) |-> calls["p1"][i].op] =
          <<"get_branch", "create_git_ref", "get_branch", "create_git_ref",
            "get_git_tree", "update_file", "get_git_tree", "delete_file",
            "create_pull", "set_labels">>
    /\ calls["p1"][10].result = "error"
    /\ Cardinality(PullsOf("p1")) = 1
    /\ pulls[PullOf("p1")].labels = <<>>

\* _create_branch of submission p has returned or raised
AllocEnded(p) == pc[p] \in {"create_pull", "raised"}

\* C19: _create_branch ends, whatever is taken and whatever the other allocation
\* does: it tries base, base-2, base-3, ... in that order, each once, never more
\* than 16 names (the first and 15 retries), and when the 16th is taken too it
\* raises.
C19_Terminates ==
    /\ [](\A p \in Procs :
            LET tries == CallsOf(p, "create_git_ref") IN
            /\ Len(tries) <= MaxPostfix + 1
            /\ \A i \in 1..Len(tries) :
                  tries[i].branch = BranchName(args[p].branch_base_name, i)
            /\ Count(p, "create_git_ref", "422") = MaxPostfix + 1 => pc[p] = "raised")
    /\ <>[](\A p \in Procs : AllocEnded(p))

\* both allocations found sixteen names taken and raised
C19_Witness ==
    \A p \in Procs :
        /\ pc[p] = "raised"
        /\ Len(CallsOf(p, "create_git_ref")) = MaxPostfix + 1
        /\ Len(CallsOf(p, "get_branch")) = MaxPostfix + 1
        /\ \A i \in 1..Len(calls[p]) : calls[p][i].result \in {"ok", "422"}

====
